---- MODULE Spec2Model ----
(***************************************************************************)
(* Model of modelscope/trainers/hooks/deepspeed_hook.py:                   *)
(*   - DeepSpeedConfig.trainer_config_finalize  (config reconciliation)    *)
(*   - deepspeed_optim_sched, DeepspeedHook.before_run  (setup)            *)
(*   - DeepspeedHook.save/load/remove_checkpoints  (checkpoint bridge)     *)
(***************************************************************************)
EXTENDS Integers, Sequences, FiniteSets, TLC

VARIABLES
    config,          \* DeepSpeedConfig.config of the live config object (dotted key -> value)
    mismatches,      \* DeepSpeedConfig.mismatches
    model_config,    \* trainer.model.config : the attributes the reconciler probes
    warmup,          \* args.train.optimizer.options.warmup
    calls,           \* number of finalizations of the live config object (bounded)
    ret,             \* outcome of the last operation: what it returned or raised
    trainer,         \* the trainer's attribute slots and run settings
    engines,         \* the arguments of each deepspeed.initialize call, in order
    ds_json,         \* content of the accelerator configuration file (None: no file)
    mpu,             \* tensor-parallel state of megatron_util.mpu
    fs,              \* file system: files (node -> content) and directories
    model_state,     \* state dict of the unwrapped model: key -> value
    hook             \* attributes of the DeepspeedHook object

vars == <<config, mismatches, model_config, warmup, calls, ret,
          trainer, engines, ds_json, mpu, fs, model_state, hook>>
hook_vars == <<trainer, engines, ds_json, mpu, fs, model_state, hook>>

-----------------------------------------------------------------------------
(* Python values held by configuration keys.                               *)

Auto        == [t |-> "auto"]
None        == [t |-> "None"]
PyInt(n)    == [t |-> "int", v |-> n]
PyFloat(x)  == [t |-> "float", m |-> x.m, e |-> x.e]
Block       == [t |-> "dict"]
PyBool(b)   == [t |-> "bool", v |-> b]

-----------------------------------------------------------------------------
(* IEEE-754 binary64 arithmetic, as CPython floats compute it.  A double   *)
(* is [m, e]: m the significand as a bit sequence (most significant bit    *)
(* first, at most MantBits bits), the value being m * 2^e.                 *)

MantBits == 53
DivShift == 64
LimbBits == 15
LimbBase == 2^LimbBits

RECURSIVE BitsOfNat(_)
BitsOfNat(n) == IF n = 0 THEN <<>> ELSE BitsOfNat(n \div 2) \o <<n % 2>>

RECURSIVE NatOfBits(_)
NatOfBits(b) ==
    IF b = <<>> THEN 0
    ELSE 2 * NatOfBits(SubSeq(b, 1, Len(b) - 1)) + b[Len(b)]

StripZeros(b) ==
    IF \A i \in 1..Len(b) : b[i] = 0 THEN <<>>
    ELSE LET first == CHOOSE i \in 1..Len(b) :
                         b[i] = 1 /\ \A j \in 1..(i - 1) : b[j] = 0
         IN SubSeq(b, first, Len(b))

Zeros(n) == [i \in 1..n |-> 0]

\* a bit sequence as limbs of LimbBits bits, least significant limb first
LimbsOfBits(b) ==
    LET L == Len(b)
        n == (L + LimbBits - 1) \div LimbBits
    IN [i \in 1..n |->
           NatOfBits(SubSeq(b, IF L - LimbBits * i + 1 > 1
                               THEN L - LimbBits * i + 1 ELSE 1,
                            L - LimbBits * (i - 1)))]

LimbBit(x, j) == (x[(j \div LimbBits) + 1] \div 2^(j % LimbBits)) % 2

BitsOfLimbs(x) ==
    LET L == LimbBits * Len(x)
    IN StripZeros([i \in 1..L |-> LimbBit(x, L - i)])

\* x * n + carry on limbs; n * LimbBase stays within the machine integers
RECURSIVE LimbMulAdd(_, _, _, _)
LimbMulAdd(x, i, n, carry) ==
    IF i > Len(x)
    THEN (IF carry = 0 THEN <<>> ELSE <<carry % LimbBase, carry \div LimbBase>>)
    ELSE <<(n * x[i] + carry) % LimbBase>>
         \o LimbMulAdd(x, i + 1, n, (n * x[i] + carry) \div LimbBase)

\* exact product of a bit sequence and a small natural
MulSmall(b, n) == BitsOfLimbs(LimbMulAdd(LimbsOfBits(b), 1, n, 0))

\* b + 1
Inc(b) == BitsOfLimbs(LimbMulAdd(LimbsOfBits(b), 1, 1, 1))

\* 2^k mod m
RECURSIVE PowMod2(_, _)
PowMod2(k, m) ==
    IF k = 0 THEN 1 % m
    ELSE IF k % 2 = 0
    THEN LET h == PowMod2(k \div 2, m) IN (h * h) % m
    ELSE (2 * PowMod2(k - 1, m)) % m

\* bit j (weight 2^j) of floor(num * 2^DivShift / den)
QuotientBit(num, den, j) ==
    IF j <= DivShift
    THEN ((num * PowMod2(DivShift - j, 2 * den)) % (2 * den)) \div den
    ELSE (num \div (den * 2^(j - DivShift))) % 2

\* round the exact value b * 2^e to MantBits significant bits, ties to even
RoundNearestEven(b, e) ==
    IF Len(b) <= MantBits THEN [m |-> b, e |-> e]
    ELSE LET q      == SubSeq(b, 1, MantBits)
             guard  == b[MantBits + 1]
             sticky == \E i \in (MantBits + 2)..Len(b) : b[i] = 1
             up     == guard = 1 /\ (sticky \/ q[MantBits] = 1)
             q2     == IF up THEN Inc(q) ELSE q
             drop   == Len(b) - MantBits
         IN IF Len(q2) > MantBits
            THEN [m |-> SubSeq(q2, 1, MantBits), e |-> e + drop + 1]
            ELSE [m |-> q2, e |-> e + drop]

\* the double a decimal literal num/den denotes (num/den = 0 or >= 2^-7):
\* the quotient's bits, a sticky bit for the remainder, rounded
DoubleOfDecimal(num, den) ==
    LET L == DivShift + 1 + Len(BitsOfNat(num))
        q == StripZeros([i \in 1..L |-> QuotientBit(num, den, L - i)])
        r == (num * PowMod2(DivShift, den)) % den
    IN RoundNearestEven(q \o <<IF r = 0 THEN 0 ELSE 1>>, -(DivShift + 1))

\* int * float in Python: the int converts exactly, the product rounds once
FloatMulInt(x, n) == RoundNearestEven(MulSmall(x.m, n), x.e)

\* math.ceil of a non-negative double
CeilOfDouble(x) ==
    IF x.e >= 0 THEN NatOfBits(x.m \o Zeros(x.e))
    ELSE LET k  == Len(x.m) + x.e
             ip == IF k > 0 THEN SubSeq(x.m, 1, k) ELSE <<>>
             fr == IF k > 0 THEN SubSeq(x.m, k + 1, Len(x.m)) ELSE x.m
         IN NatOfBits(ip) + (IF \E i \in 1..Len(fr) : fr[i] = 1 THEN 1 ELSE 0)

\* ceiling of the rational a/b, b > 0, a >= 0 (the mathematical value)
CeilDiv(a, b) == (a + b - 1) \div b

-----------------------------------------------------------------------------
(* DeepSpeedConfig: keys and the inherited helpers.                         *)

K_RBS   == "zero_optimization.reduce_bucket_size"
K_PBS   == "zero_optimization.stage3_prefetch_bucket_size"
K_PPT   == "zero_optimization.stage3_param_persistence_threshold"
K_STAGE == "zero_optimization.stage"
K_TNS   == "scheduler.params.total_num_steps"
K_WNS   == "scheduler.params.warmup_num_steps"
K_OPT   == "optimizer"
K_SCHED == "scheduler"
K_ZAUO  == "zero_allow_untested_optimizer"

ConfigKeys == {K_RBS, K_PBS, K_PPT, K_STAGE, K_TNS, K_WNS, K_OPT, K_SCHED, K_ZAUO}

\* is_auto: the key is present and holds the placeholder
is_auto(cfg, k) == cfg[k] = Auto

\* is_zero3: the configured ZeRO stage is 3
is_zero3(cfg) == cfg[K_STAGE] = PyInt(3)

\* fill_only: set the value only if the key presently holds the placeholder
fill_only(cfg, k, v) == IF cfg[k] = Auto THEN [cfg EXCEPT ![k] = v] ELSE cfg

\* fill_match on the pair st = [config, mismatches]: fill a placeholder; record
\* a mismatch for an explicit value that differs; leave an absent key alone
fill_match(st, k, hf_val) ==
    IF st.config[k] = Auto
    THEN [st EXCEPT !.config = [st.config EXCEPT ![k] = hf_val]]
    ELSE IF st.config[k] # None /\ st.config[k] # hf_val
    THEN [st EXCEPT !.mismatches =
              Append(st.mismatches,
                     [key |-> k, ds_val |-> st.config[k], hf_val |-> hf_val])]
    ELSE st

\* a mismatch trainer_config_process may have recorded before finalization
PriorMismatch ==
    [key |-> "train_batch_size", ds_val |-> PyInt(8), hf_val |-> PyInt(4)]

-----------------------------------------------------------------------------
(* DeepSpeedConfig.trainer_config_finalize                                  *)

hidden_size_based_keys == <<K_RBS, K_PBS, K_PPT>>

hidden_size_auto_keys(cfg) ==
    SelectSeq(hidden_size_based_keys, LAMBDA x : is_auto(cfg, x))

SetMax(S) == CHOOSE x \in S : \A y \in S : y <= x

\* lines 50-61: the hidden size the model exposes, or the error raised
ResolveHiddenSize(mc, auto_keys) ==
    IF mc.has_hidden_size
    THEN [raised |-> "none", hidden_size |-> mc.hidden_size]
    ELSE IF mc.has_hidden_sizes
    THEN [raised |-> "none", hidden_size |-> SetMax(mc.hidden_sizes)]
    ELSE [raised |-> "ValueError",
          error |-> [kind |-> "no_hidden_size", keys |-> auto_keys]]

NineTenths == DoubleOfDecimal(9, 10)

\* variant of lines 63-71 without the stage test of line 65
FillHiddenKeysAnyStage(cfg, hidden_size) ==
    fill_only(fill_only(fill_only(cfg, K_RBS, PyInt(hidden_size * hidden_size)),
                        K_PBS, PyFloat(FloatMulInt(FloatMulInt(NineTenths, hidden_size),
                                                   hidden_size))),
              K_PPT, PyInt(10 * hidden_size))

\* variant of lines 63-71 that assigns reduce_bucket_size instead of fill_only
FillHiddenKeysAssign(cfg, hidden_size) ==
    LET c1 == [cfg EXCEPT ![K_RBS] = PyInt(hidden_size * hidden_size)]
    IN IF is_zero3(c1)
       THEN fill_only(fill_only(c1, K_PBS,
                          PyFloat(FloatMulInt(FloatMulInt(NineTenths, hidden_size),
                                              hidden_size))),
                      K_PPT, PyInt(10 * hidden_size))
       ELSE c1

\* lines 63-71
FillHiddenKeys(cfg, hidden_size) ==
    LET c1 == fill_only(cfg, K_RBS, PyInt(hidden_size * hidden_size))
    IN IF is_zero3(c1)
       THEN LET c2 == fill_only(c1, K_PBS,
                         PyFloat(FloatMulInt(FloatMulInt(NineTenths, hidden_size),
                                             hidden_size)))
            IN fill_only(c2, K_PPT, PyInt(10 * hidden_size))
       ELSE c1

\* lines 76-79
ResolvedWarmupSteps(wu, num_training_steps) ==
    IF wu.warmup_steps > 0
    THEN wu.warmup_steps
    ELSE CeilOfDouble(FloatMulInt(wu.warmup_ratio.val, num_training_steps))

\* lines 80-81
ReconcileScheduler(st, wu, num_training_steps) ==
    fill_match(fill_match(st, K_TNS, PyInt(num_training_steps)),
               K_WNS, PyInt(ResolvedWarmupSteps(wu, num_training_steps)))

\* variant of lines 83-88 whose error lists the first mismatch only
RaiseOnFirstMismatch(st) ==
    IF Len(st.mismatches) > 0
    THEN [config |-> st.config, mismatches |-> st.mismatches,
          raised |-> "ValueError",
          error |-> [kind |-> "mismatch", entries |-> <<st.mismatches[1]>>]]
    ELSE [config |-> st.config, mismatches |-> st.mismatches,
          raised |-> "none", error |-> [kind |-> "none"]]

\* lines 83-88
RaiseOnMismatches(st) ==
    IF Len(st.mismatches) > 0
    THEN [config |-> st.config, mismatches |-> st.mismatches,
          raised |-> "ValueError",
          error |-> [kind |-> "mismatch", entries |-> st.mismatches]]
    ELSE [config |-> st.config, mismatches |-> st.mismatches,
          raised |-> "none", error |-> [kind |-> "none"]]

\* the whole method: the object's state after the call and what it raised
FinalizeResult(cfg, mm, mc, wu, num_training_steps) ==
    LET auto_keys == hidden_size_auto_keys(cfg)
        hs        == IF Len(auto_keys) > 0
                     THEN ResolveHiddenSize(mc, auto_keys)
                     ELSE [raised |-> "none", hidden_size |-> 0]
    IN IF hs.raised # "none"
       THEN [config |-> cfg, mismatches |-> mm,
             raised |-> hs.raised, error |-> hs.error]
       ELSE LET c1 == IF Len(auto_keys) > 0
                      THEN FillHiddenKeys(cfg, hs.hidden_size)
                      ELSE cfg
            IN RaiseOnMismatches(
                   ReconcileScheduler([config |-> c1, mismatches |-> mm],
                                      wu, num_training_steps))

MaxCalls == 2

trainer_config_finalize(num_training_steps) ==
    /\ calls < MaxCalls
    /\ \E r \in {FinalizeResult(config, mismatches, model_config, warmup,
                               num_training_steps)} :
          /\ config' = r.config
          /\ mismatches' = r.mismatches
          /\ ret' = [op |-> "trainer_config_finalize",
                     before |-> config,
                     mismatches_before |-> mismatches,
                     num_training_steps |-> num_training_steps,
                     raised |-> r.raised,
                     error |-> r.error]
    /\ calls' = calls + 1
    /\ UNCHANGED <<model_config, warmup>>
    /\ UNCHANGED hook_vars

-----------------------------------------------------------------------------
(* Paths are sequences of tokens; "/" is the separator.  posixpath's split,  *)
(* dirname, basename and join, and the node of the file tree a path names.   *)

Sep == "/"

RECURSIVE LastSep(_, _)
LastSep(p, i) == IF i = 0 THEN 0 ELSE IF p[i] = Sep THEN i ELSE LastSep(p, i - 1)

RECURSIVE RStripSep(_)
RStripSep(p) ==
    IF p # <<>> /\ p[Len(p)] = Sep THEN RStripSep(SubSeq(p, 1, Len(p) - 1)) ELSE p

path_split(p) ==
    LET i    == LastSep(p, Len(p))
        head == SubSeq(p, 1, i)
        tail == SubSeq(p, i + 1, Len(p))
    IN [head |-> IF head # <<>> /\ RStripSep(head) # <<>> THEN RStripSep(head) ELSE head,
        tail |-> tail]

dirname(p)  == path_split(p).head
basename(p) == path_split(p).tail

path_join(a, b) ==
    IF b # <<>> /\ b[1] = Sep THEN b
    ELSE IF a = <<>> \/ a[Len(a)] = Sep THEN a \o b
    ELSE a \o <<Sep>> \o b

\* the components of a path, empty ones dropped
RECURSIVE Components(_, _, _)
Components(p, i, cur) ==
    IF i > Len(p) THEN (IF cur = <<>> THEN <<>> ELSE <<cur>>)
    ELSE IF p[i] = Sep
    THEN (IF cur = <<>> THEN <<>> ELSE <<cur>>) \o Components(p, i + 1, <<>>)
    ELSE Components(p, i + 1, Append(cur, p[i]))

\* the node a path names: whether it is absolute, and its components
Node(p) == [abs |-> (p # <<>> /\ p[1] = Sep), comps |-> Components(p, 1, <<>>)]

IsPrefixOf(a, b) == Len(a) <= Len(b) /\ SubSeq(b, 1, Len(a)) = a
Under(n, d) == n.abs = d.abs /\ IsPrefixOf(d.comps, n.comps)
Parent(n) == [abs |-> n.abs, comps |-> SubSeq(n.comps, 1, Len(n.comps) - 1)]
Ancestors(n) ==
    {[abs |-> n.abs, comps |-> SubSeq(n.comps, 1, k)] : k \in 1..Len(n.comps)}

EmptyFs == [files |-> <<>>, dirs |-> {}]

\* os.path.isdir / os.path.isfile; the root and the working directory exist
isdir(f, p) == p # <<>> /\ (Node(p).comps = <<>> \/ Node(p) \in f.dirs)
isfile(f, p) == p # <<>> /\ p[Len(p)] # Sep /\ Node(p) \in DOMAIN f.files

\* os.makedirs(p, exist_ok=True)
makedirs(f, p) == [f EXCEPT !.dirs = @ \cup Ancestors(Node(p))]

\* writing a file, its parent directories created as needed
write_file(f, p, content) ==
    LET g == makedirs(f, dirname(p))
    IN [g EXCEPT !.files = [n \in DOMAIN g.files \cup {Node(p)} |->
                               IF n = Node(p) THEN content ELSE g.files[n]]]

\* os.remove of an existing file
remove_file(f, p) ==
    [f EXCEPT !.files = [n \in DOMAIN f.files \ {Node(p)} |-> f.files[n]]]

\* shutil.rmtree(p, ignore_errors=True)
rmtree(f, p) ==
    IF p # <<>> /\ Node(p) \in f.dirs
    THEN [files |-> [n \in {m \in DOMAIN f.files : ~Under(m, Node(p))} |-> f.files[n]],
          dirs |-> {d \in f.dirs : ~Under(d, Node(p))}]
    ELSE f

-----------------------------------------------------------------------------
(* Objects the trainer's slots hold.                                        *)

Module          == [kind |-> "module"]
Engine(i)       == [kind |-> "engine", id |-> i]
TorchOptim      == [kind |-> "optimizer"]
EngineOptim(i)  == [kind |-> "engine_optimizer", id |-> i]
LrSched         == [kind |-> "lr_scheduler"]
EngineSched(i)  == [kind |-> "engine_lr_scheduler", id |-> i]
OtherSched      == [kind |-> "scheduler_attribute"]
Missing         == [kind |-> "missing"]      \* the attribute does not exist

is_engine(m) == m.kind = "engine"

-----------------------------------------------------------------------------
(* deepspeed_optim_sched                                                    *)

\* lines 91-111: the optimizer and scheduler handed to the engine, the config
\* as left by the function, and the error raised by an attribute lookup
deepspeed_optim_sched(tr, cfg) ==
    LET no_opt == cfg[K_OPT] = None
        cfg1   == IF no_opt THEN [cfg EXCEPT ![K_ZAUO] = PyBool(TRUE)] ELSE cfg
        opt    == IF no_opt THEN tr.optimizer ELSE None
    IN IF cfg1[K_SCHED] = None
       THEN IF tr.scheduler = Missing
            THEN [config |-> cfg1, optimizer |-> opt, lr_scheduler |-> None,
                  raised |-> "AttributeError"]
            ELSE [config |-> cfg1, optimizer |-> opt, lr_scheduler |-> tr.scheduler,
                  raised |-> "none"]
       ELSE [config |-> cfg1, optimizer |-> opt, lr_scheduler |-> None,
             raised |-> "none"]

-----------------------------------------------------------------------------
(* DeepspeedHook.before_run                                                 *)

\* math.ceil of an int is the int
CeilOfInt(n) == n

\* variant of lines 328-331 with true division in place of //
MaxStepsTrueDivision(tr) ==
    CeilDiv(tr.max_epochs * tr.iters_per_epoch, tr.gradient_accumulation_steps)

\* lines 328-331
MaxSteps(tr) ==
    LET num_update_steps_per_epoch ==
            tr.iters_per_epoch \div tr.gradient_accumulation_steps
    IN CeilOfInt(tr.max_epochs * num_update_steps_per_epoch)

NoHiddenConfig ==
    [has_hidden_size |-> FALSE, hidden_size |-> 0,
     has_hidden_sizes |-> FALSE, hidden_sizes |-> {}]

\* the config attribute trainer_config_finalize finds on trainer.model: the
\* module's own, or, through an engine, either the module's or none
ProbedConfigs(tr, mc) == IF is_engine(tr.model) THEN {mc, NoHiddenConfig} ELSE {mc}

MaxEngines == 2

\* lines 300-319 and 321-343 for one outcome of the calls into the libraries:
\* prior is what trainer_config_process recorded, mc the config found on the model
BeforeRunResult(tr, eng, json, wu, prior, mc) ==
    LET max_steps == MaxSteps(tr)
        base == [op |-> "before_run", max_steps |-> max_steps, trainer_before |-> tr,
                 engines_before |-> Len(eng)]
    IN IF json = None
       THEN [trainer |-> tr, engines |-> eng, config |-> [k \in ConfigKeys |-> None],
             mismatches |-> <<>>, changed_config |-> FALSE,
             ret |-> base @@ [raised |-> "RuntimeError", error |-> [kind |-> "no_config_file"]]]
       ELSE LET fin == FinalizeResult(json, prior, mc, wu, max_steps)
            IN IF fin.raised # "none"
               THEN [trainer |-> tr, engines |-> eng, config |-> fin.config,
                     mismatches |-> fin.mismatches, changed_config |-> TRUE,
                     ret |-> base @@ [raised |-> fin.raised, error |-> fin.error]]
               ELSE LET os == deepspeed_optim_sched(tr, fin.config)
                        id == Len(eng) + 1
                    IN IF os.raised # "none"
                       THEN [trainer |-> tr, engines |-> eng, config |-> os.config,
                             mismatches |-> fin.mismatches, changed_config |-> TRUE,
                             ret |-> base @@ [raised |-> os.raised,
                                              error |-> [kind |-> "trainer.scheduler"]]]
                       ELSE [trainer |-> [tr EXCEPT !.model = Engine(id),
                                                    !.optimizer = EngineOptim(id),
                                                    !.lr_scheduler = EngineSched(id)],
                             engines |-> Append(eng, [model |-> tr.model,
                                                      optimizer |-> os.optimizer,
                                                      config |-> os.config,
                                                      lr_scheduler |-> os.lr_scheduler]),
                             config |-> os.config,
                             mismatches |-> fin.mismatches, changed_config |-> TRUE,
                             ret |-> base @@ [raised |-> "none", error |-> [kind |-> "none"]]]

PriorMismatchChoices == {<<>>, <<PriorMismatch>>}

\* before_run when trainer_config_process has recorded the mismatches prior
BeforeRun(prior) ==
    /\ Len(engines) < MaxEngines
    /\ \E mc \in ProbedConfigs(trainer, model_config) :
          \E r \in {BeforeRunResult(trainer, engines, ds_json, warmup, prior, mc)} :
             /\ trainer' = r.trainer
             /\ engines' = r.engines
             /\ config' = IF r.changed_config THEN r.config ELSE config
             /\ mismatches' = IF r.changed_config THEN r.mismatches ELSE mismatches
             /\ ret' = r.ret
    /\ UNCHANGED <<model_config, warmup, calls, ds_json, mpu, fs, model_state, hook>>

before_run == \E prior \in PriorMismatchChoices : BeforeRun(prior)

-----------------------------------------------------------------------------
(* Rank-dependent names.                                                    *)

TRAINER_STATE_SUFFIX == "_trainer_state.pth"

\* '{:02d}'.format(rank), rank < 100
TwoDigits(rank) == <<ToString(rank \div 10), ToString(rank % 10)>>

\* lines 166-175
rank_name(m) ==
    IF ~m.initialized THEN <<>>                 \* AssertionError, caught
    ELSE IF m.world_size = 1 THEN <<>>
    ELSE <<"_mp_rank_">> \o TwoDigits(m.rank)

\* lines 157-160: the name, or the error of the rank lookup
get_bin_file(m) ==
    IF ~m.initialized THEN [raised |-> "AssertionError", name |-> <<>>]
    ELSE [raised |-> "none",
          name |-> <<"mp_rank_">> \o TwoDigits(m.rank) \o <<"_model_states.pt">>]

\* the engine is built without an mpu (lines 339-343): it names its file by rank 0
engine_bin_file == <<"mp_rank_">> \o TwoDigits(0) \o <<"_model_states.pt">>

-----------------------------------------------------------------------------
(* The engine's own checkpoint calls and torch's load_state_dict.           *)

\* engine.save_checkpoint(save_dir, tag): save_dir/tag/<bin file>, save_dir/latest
engine_save_checkpoint(f, save_dir, tag, weights) ==
    IF save_dir = <<>>
    THEN [fs |-> f, raised |-> "FileNotFoundError"]
    ELSE LET d  == path_join(save_dir, tag)
             f1 == write_file(makedirs(makedirs(f, save_dir), d),
                              path_join(d, engine_bin_file), [module |-> weights])
         IN [fs |-> write_file(f1, path_join(save_dir, <<"latest">>), [tag |-> tag]),
             raised |-> "none"]

\* load_state_dict(checkpoint, strict): the matching keys are copied, then a
\* strict load raises on any missing or unexpected key
load_state_dict(ms, checkpoint, strict) ==
    [model_state |-> [k \in DOMAIN ms |->
                         IF k \in DOMAIN checkpoint THEN checkpoint[k] ELSE ms[k]],
     raised |-> IF strict /\ DOMAIN checkpoint # DOMAIN ms
                THEN "RuntimeError" ELSE "none"]

\* engine.load_checkpoint(path, tag, load_module_strict=strict, ...): a missing
\* checkpoint is reported and nothing is loaded
engine_load_checkpoint(f, ms, path, tag, strict) ==
    LET file == path_join(path_join(path, tag), engine_bin_file)
    IN IF isfile(f, file)
       THEN load_state_dict(ms, f.files[Node(file)].module, strict)
       ELSE [model_state |-> ms, raised |-> "none"]

-----------------------------------------------------------------------------
(* DeepspeedHook.save_checkpoints / remove_checkpoints / load_checkpoints   *)

\* lines 210-211
save_train_state_file(m, prefix) == prefix \o rank_name(m) \o <<TRAINER_STATE_SUFFIX>>
\* lines 221-222
remove_train_state_file(m, prefix) == prefix \o rank_name(m) \o <<TRAINER_STATE_SUFFIX>>
\* variant of lines 235-236 without the rank qualifier
load_train_state_file_unqualified(m, prefix) == prefix \o <<TRAINER_STATE_SUFFIX>>
\* lines 235-236
load_train_state_file(m, prefix) == prefix \o rank_name(m) \o <<TRAINER_STATE_SUFFIX>>

\* lines 209-218
SaveCheckpointsResult(f, tr, m, ms, prefix, meta) ==
    LET f1 == write_file(f, save_train_state_file(m, prefix), [meta |-> meta])
    IN IF ~is_engine(tr.model)
       THEN [fs |-> f1, raised |-> "AttributeError"]
       ELSE engine_save_checkpoint(f1, dirname(prefix), basename(prefix), ms)

save_checkpoints(prefix, meta) ==
    /\ \E r \in {SaveCheckpointsResult(fs, trainer, mpu, model_state, prefix, meta)} :
          /\ fs' = r.fs
          /\ ret' = [op |-> "save_checkpoints", prefix |-> prefix, meta |-> meta,
                     raised |-> r.raised]
    /\ UNCHANGED <<config, mismatches, model_config, warmup, calls,
                   trainer, engines, ds_json, mpu, model_state, hook>>

\* os.remove
os_remove(f, p) ==
    IF isfile(f, p) THEN [fs |-> remove_file(f, p), raised |-> "none"]
    ELSE [fs |-> f, raised |-> "FileNotFoundError"]

\* variant of lines 221-226 without the isfile test of line 223
RemoveCheckpointsUnguarded(f, m, prefix) ==
    LET r1 == os_remove(f, remove_train_state_file(m, prefix))
    IN IF r1.raised # "none" THEN r1
       ELSE [fs |-> rmtree(r1.fs, prefix), raised |-> "none"]

\* lines 221-226
RemoveCheckpointsResult(f, m, prefix) ==
    LET file == remove_train_state_file(m, prefix)
        r1   == IF isfile(f, file) THEN os_remove(f, file)
                ELSE [fs |-> f, raised |-> "none"]
    IN IF r1.raised # "none" THEN r1
       ELSE [fs |-> rmtree(r1.fs, prefix), raised |-> "none"]

remove_checkpoints(prefix) ==
    /\ \E r \in {RemoveCheckpointsResult(fs, mpu, prefix)} :
          /\ fs' = r.fs
          /\ ret' = [op |-> "remove_checkpoints", prefix |-> prefix,
                     had_file |-> isfile(fs, remove_train_state_file(mpu, prefix)),
                     had_dir |-> isdir(fs, prefix),
                     raised |-> r.raised]
    /\ UNCHANGED <<config, mismatches, model_config, warmup, calls,
                   trainer, engines, ds_json, mpu, model_state, hook>>

EmptyMeta == [t |-> "dict"]

\* LoadCheckpointHook.load_trainer_state: the metadata stored in the file
load_trainer_state(f, file) == f.files[Node(file)].meta

\* lines 249-264: the flat weights file is read and assigned into the model
LoadFlatWeights(f, m, ms, prefix, strict) ==
    LET bin == get_bin_file(m)
        model_file == path_join(prefix, bin.name)
    IN IF bin.raised # "none"
       THEN [model_state |-> ms, raised |-> bin.raised, skipped |-> {}]
       ELSE IF ~isfile(f, model_file)
       THEN [model_state |-> ms, raised |-> "FileNotFoundError", skipped |-> {}]
       ELSE LET checkpoint == f.files[Node(model_file)].module
                r == load_state_dict(ms, checkpoint, strict)
            IN [model_state |-> r.model_state, raised |-> r.raised,
                skipped |-> DOMAIN checkpoint \ DOMAIN ms]

\* lines 230-265
LoadCheckpointsResult(f, tr, m, ms, prefix, load_all_state, strict) ==
    IF ~isdir(f, prefix)
    THEN [trainer |-> tr, model_state |-> ms, raised |-> "AssertionError",
          meta |-> EmptyMeta, skipped |-> {}]
    ELSE LET file  == load_train_state_file(m, prefix)
             found == isfile(f, file)
             meta  == IF found THEN load_trainer_state(f, file) ELSE EmptyMeta
             tr1   == IF found
                      THEN [tr EXCEPT !.state = meta]
                      ELSE tr
         IN IF is_engine(tr.model)
            THEN LET r == engine_load_checkpoint(f, ms, dirname(prefix),
                                                 basename(prefix), strict)
                 IN [trainer |-> tr1, model_state |-> r.model_state,
                     raised |-> r.raised, meta |-> meta, skipped |-> {}]
            ELSE LET r == LoadFlatWeights(f, m, ms, prefix, strict)
                 IN [trainer |-> tr1, model_state |-> r.model_state,
                     raised |-> r.raised, meta |-> meta, skipped |-> r.skipped]

load_checkpoints(prefix, load_all_state, strict) ==
    /\ \E r \in {LoadCheckpointsResult(fs, trainer, mpu, model_state, prefix,
                                      load_all_state, strict)} :
          /\ trainer' = r.trainer
          /\ model_state' = r.model_state
          /\ ret' = [op |-> "load_checkpoints", prefix |-> prefix, strict |-> strict,
                     load_all_state |-> load_all_state, raised |-> r.raised,
                     value |-> IF r.raised = "none" THEN r.meta ELSE None,
                     skipped |-> r.skipped]
    /\ UNCHANGED <<config, mismatches, model_config, warmup, calls,
                   engines, ds_json, mpu, fs, hook>>

-----------------------------------------------------------------------------
(* The remaining operations the hook registers.                             *)

Trained == "trained"

\* lines 177-186: engine.backward per loss, then engine.step
backward ==
    /\ IF is_engine(trainer.model)
       THEN /\ model_state' = [k \in DOMAIN model_state |-> Trained]
            /\ ret' = [op |-> "backward", raised |-> "none"]
       ELSE /\ model_state' = model_state
            /\ ret' = [op |-> "backward", raised |-> "AttributeError"]
    /\ UNCHANGED <<config, mismatches, model_config, warmup, calls,
                   trainer, engines, ds_json, mpu, fs, hook>>

\* lines 162-164
wrap_module ==
    /\ hook' = [hook EXCEPT !.wrapped = TRUE]
    /\ ret' = [op |-> "wrap_module", raised |-> "none"]
    /\ UNCHANGED <<config, mismatches, model_config, warmup, calls,
                   trainer, engines, ds_json, mpu, fs, model_state>>

\* lines 191-202
get_current_lr ==
    /\ ret' = [op |-> "get_current_lr",
               raised |-> IF trainer.optimizer = None THEN "RuntimeError" ELSE "none"]
    /\ UNCHANGED <<config, mismatches, model_config, warmup, calls,
                   trainer, engines, ds_json, mpu, fs, model_state, hook>>

\* lines 188-189
idle ==
    /\ ret' = [op |-> "idle", raised |-> "none"]
    /\ UNCHANGED <<config, mismatches, model_config, warmup, calls,
                   trainer, engines, ds_json, mpu, fs, model_state, hook>>

-----------------------------------------------------------------------------
(* Inputs of the configuration specification.                               *)

MaxHidden == 2
ExplicitBucket == 7

ModelConfigs ==
    {[has_hidden_size |-> TRUE, hidden_size |-> MaxHidden,
      has_hidden_sizes |-> FALSE, hidden_sizes |-> {}]}
    \cup {[has_hidden_size |-> FALSE, hidden_size |-> 0,
           has_hidden_sizes |-> TRUE, hidden_sizes |-> S] :
             S \in {1..MaxHidden}}
    \cup {[has_hidden_size |-> FALSE, hidden_size |-> 0,
           has_hidden_sizes |-> FALSE, hidden_sizes |-> {}]}

StepChoices == {97, 100}

\* a warmup_ratio: the decimal literal of the configuration and the float it is
Ratio(num, den) == [num |-> num, den |-> den, val |-> DoubleOfDecimal(num, den)]
Ratios == {Ratio(0, 1), Ratio(1, 10), Ratio(7, 100)}

Warmups ==
    {[warmup_steps |-> 0, warmup_ratio |-> r] : r \in Ratios}
    \cup {[warmup_steps |-> 5, warmup_ratio |-> Ratio(1, 10)]}

SchedTotalValues  == {Auto, PyInt(100)}
SchedWarmupValues == {Auto, None, PyInt(10)}

NoCall == [op |-> "none", raised |-> "none"]

ConfigOf(rbs, pbs, ppt, stage, tns, wns, opt, sched) ==
    [k \in ConfigKeys |->
        CASE k = K_RBS   -> rbs
          [] k = K_PBS   -> pbs
          [] k = K_PPT   -> ppt
          [] k = K_STAGE -> PyInt(stage)
          [] k = K_TNS   -> tns
          [] k = K_WNS   -> wns
          [] k = K_OPT   -> opt
          [] k = K_SCHED -> sched
          [] k = K_ZAUO  -> None]

InitConfig ==
    /\ \E rbs \in {Auto, PyInt(ExplicitBucket)},
          pbs \in {Auto, PyInt(ExplicitBucket)},
          ppt \in {Auto, None},
          stage \in {2, 3}, tns \in SchedTotalValues, wns \in SchedWarmupValues :
          config = ConfigOf(rbs, pbs, ppt, stage, tns, wns, None, Block)
    /\ mismatches \in {<<>>, <<PriorMismatch>>}
    /\ model_config \in ModelConfigs
    /\ warmup \in Warmups
    /\ calls = 0
    /\ ret = NoCall
    /\ trainer = [x \in {} |-> x]
    /\ engines = <<>>
    /\ ds_json = None
    /\ mpu = [initialized |-> FALSE]
    /\ fs = EmptyFs
    /\ model_state = <<>>
    /\ hook = [x \in {} |-> x]

NextConfig == \E n \in StepChoices : trainer_config_finalize(n)

SpecConfig == InitConfig /\ [][NextConfig]_vars

-----------------------------------------------------------------------------
(* Inputs of the setup and checkpoint specifications.                       *)

MaxEpochs == 2
MaxIters  == 3
MaxAccum  == 2

ModelKeys == {"w1", "w2"}
FreshModelState == [k \in ModelKeys |-> "init"]

TrainerOf(epochs, iters, accum, sched) ==
    [model |-> Module, optimizer |-> TorchOptim, lr_scheduler |-> LrSched,
     scheduler |-> sched, iters_per_epoch |-> iters, max_epochs |-> epochs,
     gradient_accumulation_steps |-> accum, state |-> None]

EmptyConfig == [k \in ConfigKeys |-> None]

PrefixE == <<"c", Sep, "e">>
PrefixF == <<"c", Sep, "f">>
Prefixes == {PrefixE, PrefixF}
Metas == {[epoch |-> 1], [epoch |-> 2]}

\* the configuration files of the setup specification: a scheduler block
\* carries its params, an absent one leaves them absent
SetupConfigFiles ==
    {ConfigOf(Auto, Auto, None, 3, Auto, Auto, opt, Block) : opt \in {None, Block}}
    \cup {ConfigOf(Auto, Auto, None, 3, None, None, opt, None) : opt \in {None, Block}}

InitSetup ==
    /\ config = EmptyConfig
    /\ mismatches = <<>>
    /\ model_config = [has_hidden_size |-> TRUE, hidden_size |-> MaxHidden,
                       has_hidden_sizes |-> FALSE, hidden_sizes |-> {}]
    /\ warmup = [warmup_steps |-> 0, warmup_ratio |-> Ratio(1, 10)]
    /\ calls = 0
    /\ ret = NoCall
    /\ \E epochs \in {1, MaxEpochs}, iters \in {MaxIters - 1, MaxIters},
          accum \in {1, MaxAccum}, sched \in {Missing, OtherSched} :
          trainer = TrainerOf(epochs, iters, accum, sched)
    /\ engines = <<>>
    /\ ds_json \in {None} \cup SetupConfigFiles
    /\ mpu = [initialized |-> TRUE, world_size |-> 1, rank |-> 0]
    /\ fs = EmptyFs
    /\ model_state = FreshModelState
    /\ hook = [wrapped |-> FALSE]

NextSetup ==
    \/ before_run
    \/ backward
    \/ wrap_module
    \/ get_current_lr
    \/ idle

SpecSetup == InitSetup /\ [][NextSetup]_vars

\* a checkpoint left at a prefix by an earlier process
SavedCheckpoint(f, m, prefix, meta, weights) ==
    engine_save_checkpoint(write_file(f, save_train_state_file(m, prefix), [meta |-> meta]),
                           dirname(prefix), basename(prefix), weights).fs

CkptConfigFile == ConfigOf(PyInt(ExplicitBucket), None, None, 2, Auto, Auto, Block, Block)

MpuStates ==
    {[initialized |-> FALSE],
     [initialized |-> TRUE, world_size |-> 1, rank |-> 0],
     [initialized |-> TRUE, world_size |-> 2, rank |-> 1]}

StoredWeights ==
    {[k \in ModelKeys |-> "stored"],
     [k \in {"w1", "extra"} |-> "stored"]}

InitCkpt ==
    /\ config = EmptyConfig
    /\ mismatches = <<>>
    /\ model_config = NoHiddenConfig
    /\ warmup = [warmup_steps |-> 0, warmup_ratio |-> Ratio(0, 1)]
    /\ calls = 0
    /\ ret = NoCall
    /\ trainer = TrainerOf(1, 1, 1, Missing)
    /\ engines = <<>>
    /\ ds_json = CkptConfigFile
    /\ mpu \in MpuStates
    /\ fs \in {EmptyFs}
              \cup {SavedCheckpoint(EmptyFs, mpu, PrefixE, [epoch |-> 1], w) :
                       w \in StoredWeights}
    /\ model_state = FreshModelState
    /\ hook = [wrapped |-> FALSE]

\* the trainer signals "before run" once, and its configuration is consistent
NextCkpt ==
    \/ (~is_engine(trainer.model) /\ BeforeRun(<<>>))
    \/ \E prefix \in Prefixes, meta \in Metas : save_checkpoints(prefix, meta)
    \/ \E prefix \in Prefixes, load_all_state \in BOOLEAN, strict \in BOOLEAN :
          load_checkpoints(prefix, load_all_state, strict)
    \/ \E prefix \in Prefixes : remove_checkpoints(prefix)

SpecCkpt == InitCkpt /\ [][NextCkpt]_vars

-----------------------------------------------------------------------------
(* Claims about trainer_config_finalize (checked under SpecConfig).          *)

Finalized == ret.op = "trainer_config_finalize"
HiddenKeys == {K_RBS, K_PBS, K_PPT}
AutoBefore == {k \in HiddenKeys : ret.before[k] = Auto}
ExposesHiddenSize == model_config.has_hidden_size \/ model_config.has_hidden_sizes
NamesExactlyAutoKeys ==
    /\ ret.raised = "ValueError"
    /\ ret.error.kind = "no_hidden_size"
    /\ {ret.error.keys[i] : i \in 1..Len(ret.error.keys)} = AutoBefore
    /\ Len(ret.error.keys) = Cardinality(AutoBefore)

\* C1 (as stated): with at least one hidden-size key 'auto', after a
\* successful finalization none of the three keys is 'auto' iff the model
\* exposes hidden_size or hidden_sizes, whatever the ZeRO stage; when it
\* exposes neither, finalization fails naming exactly the keys that were 'auto'.
C1_AsStated ==
    (Finalized /\ AutoBefore # {}) =>
        /\ ret.raised = "none" =>
              ((\A k \in HiddenKeys : config[k] # Auto) <=> ExposesHiddenSize)
        /\ ~ExposesHiddenSize => NamesExactlyAutoKeys

\* C1 (amended): with at least one hidden-size key 'auto': finalization fails
\* with the hidden-size error, naming exactly the keys that were 'auto', iff
\* the model exposes neither hidden_size nor hidden_sizes; when it returns
\* successfully reduce_bucket_size is not 'auto', and the two stage3 keys
\* are not 'auto' at ZeRO stage 3, while at any other stage they are left
\* as they were.
C1_AutoKeysResolvedPerStage ==
    (Finalized /\ AutoBefore # {}) =>
        /\ ~ExposesHiddenSize <=> NamesExactlyAutoKeys
        /\ ret.raised = "none" =>
              /\ config[K_RBS] # Auto
              /\ is_zero3(config) => config[K_PBS] # Auto /\ config[K_PPT] # Auto
              /\ ~is_zero3(config) =>
                    config[K_PBS] = ret.before[K_PBS] /\ config[K_PPT] = ret.before[K_PPT]

\* C1 witness: a successful finalization at stage 2 that filled
\* reduce_bucket_size and left a stage3 key 'auto'
C1_Witness ==
    /\ Finalized /\ ret.raised = "none"
    /\ ret.before[K_RBS] = Auto /\ config[K_RBS] = PyInt(MaxHidden * MaxHidden)
    /\ ret.before[K_PBS] = Auto /\ config[K_PBS] = Auto
    /\ ~is_zero3(config)

ReachedScheduler ==
    Finalized /\ ret.error.kind # "no_hidden_size"
NewMismatches ==
    SubSeq(mismatches, Len(ret.mismatches_before) + 1, Len(mismatches))
NewMismatchKeys == {NewMismatches[i].key : i \in 1..Len(NewMismatches)}
ComputedFor(k) ==
    IF k = K_TNS THEN PyInt(ret.num_training_steps)
    ELSE PyInt(ResolvedWarmupSteps(warmup, ret.num_training_steps))

\* C2: reconciliation of scheduler.params.total_num_steps and
\* scheduler.params.warmup_num_steps: an 'auto' key is filled with the
\* computed value; an explicit value that differs is recorded as a mismatch
\* and kept; finalization raises the one aggregated error, listing every
\* recorded mismatch, exactly when at least one mismatch is recorded.
C2_ReconcileScheduler ==
    ReachedScheduler =>
        /\ \A k \in {K_TNS, K_WNS} :
              /\ ret.before[k] = Auto => config[k] = ComputedFor(k)
              /\ ret.before[k] # Auto => config[k] = ret.before[k]
              /\ k \in NewMismatchKeys <=>
                    (ret.before[k] \notin {Auto, None} /\ ret.before[k] # ComputedFor(k))
        /\ Len(NewMismatches) = Cardinality(NewMismatchKeys)
        /\ SubSeq(mismatches, 1, Len(ret.mismatches_before)) = ret.mismatches_before
        /\ (ret.raised = "ValueError" /\ ret.error.kind = "mismatch")
              <=> Len(mismatches) > 0
        /\ ret.raised = "ValueError" => ret.error.entries = mismatches
        /\ ret.raised = "none" <=> Len(mismatches) = 0

\* C2 witness: total_num_steps pre-set to a different value is reported in
\* the aggregated error while warmup_num_steps, 'auto', was filled
C2_Witness ==
    /\ ReachedScheduler /\ ret.raised = "ValueError"
    /\ ret.before[K_TNS] = PyInt(100) /\ ret.num_training_steps = 97
    /\ K_TNS \in NewMismatchKeys /\ config[K_TNS] = PyInt(100)
    /\ ret.before[K_WNS] = Auto /\ config[K_WNS] = PyInt(10)

\* C3: a hidden-size key holding an explicit value is never changed by
\* finalization, whatever the model, the stage and the other keys; a second
\* finalization leaves the keys the first one resolved as they are.
C3_FillNeverClobbers ==
    Finalized => \A k \in HiddenKeys : ret.before[k] # Auto => config[k] = ret.before[k]

\* C3 witness: reduce_bucket_size pre-set, the other keys filled at stage 3
C3_Witness ==
    /\ Finalized /\ ret.raised = "none" /\ is_zero3(config)
    /\ ret.before[K_RBS] = PyInt(ExplicitBucket) /\ config[K_RBS] = PyInt(ExplicitBucket)
    /\ ret.before[K_PBS] = Auto /\ config[K_PBS] # Auto

\* the warmup step count the claim states: warmup_steps if positive, else the
\* ceiling of the exact product total_steps * warmup_ratio
StatedWarmupSteps(wu, n) ==
    IF wu.warmup_steps > 0 THEN wu.warmup_steps
    ELSE CeilDiv(n * wu.warmup_ratio.num, wu.warmup_ratio.den)

\* C7: the resolved warmup step count is warmup_steps when warmup_steps > 0
\* and otherwise ceil(total_steps * warmup_ratio).
C7_WarmupIsExactCeil ==
    (ReachedScheduler /\ ret.before[K_WNS] = Auto) =>
        config[K_WNS] = PyInt(StatedWarmupSteps(warmup, ret.num_training_steps))

-----------------------------------------------------------------------------
(* Claims about before_run (checked under SpecSetup).                        *)

RanSetup == ret.op = "before_run"
Epochs == ret.trainer_before.max_epochs
Iters == ret.trainer_before.iters_per_epoch
Accum == ret.trainer_before.gradient_accumulation_steps

\* C8 (as stated): the step count before_run computes is
\* ceil(max_epochs * (iters_per_epoch / gradient_accumulation_steps)) with an
\* exact division, only the product being rounded up.
C8_ExactDivisionThenCeil ==
    RanSetup => ret.max_steps = CeilDiv(Epochs * Iters, Accum)

\* C8 (amended): the step count before_run computes is max_epochs times the
\* floor of iters_per_epoch / gradient_accumulation_steps (the division is
\* truncated before the product is taken), and that count is what fills an
\* 'auto' scheduler.params.total_num_steps.
C8_FloorDivisionThenProduct ==
    RanSetup =>
        \E q \in 0..Iters :
            /\ q * Accum <= Iters /\ Iters < (q + 1) * Accum
            /\ ret.max_steps = Epochs * q
            /\ (ret.raised = "none" /\ ds_json[K_TNS] = Auto) =>
                   config[K_TNS] = PyInt(Epochs * q)

\* C8 witness: a setup where the accumulation steps do not divide the
\* iterations per epoch and the count filled total_num_steps
C8_Witness ==
    /\ RanSetup /\ ret.raised = "none"
    /\ Iters % Accum # 0 /\ Epochs > 1
    /\ ds_json[K_TNS] = Auto /\ config[K_TNS] = PyInt(ret.max_steps)

\* C9: over any sequence of 'before run' signals and other operations the
\* engine is constructed, and the trainer's slots rebound, at most once.
C9_SetupIsOneShot ==
    /\ Len(engines) <= 1
    /\ (RanSetup /\ is_engine(ret.trainer_before.model)) =>
           /\ trainer.model = ret.trainer_before.model
           /\ trainer.optimizer = ret.trainer_before.optimizer
           /\ trainer.lr_scheduler = ret.trainer_before.lr_scheduler

\* C10: at setup, when the resolved configuration has no 'scheduler' block
\* the engine is constructed with the trainer's lr_scheduler, the slot that
\* setup rebinds.
C10_TrainerLrSchedulerPassed ==
    (RanSetup /\ ret.raised \in {"none", "AttributeError"} /\ config[K_SCHED] = None) =>
        /\ ret.raised = "none"
        /\ engines[Len(engines)].lr_scheduler = ret.trainer_before.lr_scheduler

-----------------------------------------------------------------------------
(* Claims about the checkpoint operations (checked under SpecCkpt).          *)

Saved == ret.op = "save_checkpoints" /\ ret.raised = "none"
Loaded == ret.op = "load_checkpoints" /\ ret.raised = "none"
LoadAgain(prefix, load_all_state, strict) ==
    LoadCheckpointsResult(fs, trainer, mpu, model_state, prefix, load_all_state, strict)

\* C4: once save_checkpoints(P, meta=M) has completed, the trainer-state file
\* load_checkpoints(P) looks for is the one the save wrote, the directory it
\* requires exists, and load_checkpoints(P) returns and restores M; once
\* load_checkpoints(P) has completed, loading P again from the unchanged
\* files returns the same metadata and leaves trainer and model as they are.
C4_SaveLoadRoundTrip ==
    /\ Saved =>
          /\ isfile(fs, load_train_state_file(mpu, ret.prefix))
          /\ load_train_state_file(mpu, ret.prefix) = save_train_state_file(mpu, ret.prefix)
          /\ isdir(fs, path_join(dirname(ret.prefix), basename(ret.prefix)))
          /\ \A load_all_state \in BOOLEAN, strict \in BOOLEAN :
                \E r \in {LoadAgain(ret.prefix, load_all_state, strict)} :
                   /\ r.raised = "none"
                   /\ r.meta = ret.meta
                   /\ r.trainer.state = ret.meta
    /\ Loaded =>
          \E r \in {LoadAgain(ret.prefix, ret.load_all_state, ret.strict)} :
             /\ r.raised = "none"
             /\ r.meta = ret.value
             /\ r.trainer = trainer
             /\ r.model_state = model_state

\* C4 witness: on a rank-qualified file name, a load has returned the
\* metadata of a save made through the engine
C4_Witness ==
    /\ Loaded /\ is_engine(trainer.model)
    /\ rank_name(mpu) # <<>>
    /\ ret.prefix = PrefixF
    /\ ret.value = [epoch |-> 2] /\ trainer.state = [epoch |-> 2]

\* C5: on the inference-only path, for every value of strict, a key of the
\* weights file that the model does not have is skipped and does not make
\* the load fail.
C5_AbsentKeyNeverFails ==
    (ret.op = "load_checkpoints" /\ ~is_engine(trainer.model) /\ ret.skipped # {}) =>
        ret.raised = "none"

\* C6: whatever files exist, remove_checkpoints(P) raises no error and
\* leaves neither the rank-qualified trainer-state file nor anything at or
\* under the directory P; a second remove_checkpoints(P) right after raises
\* no error and changes nothing.
C6_RemoveIdempotent ==
    ret.op = "remove_checkpoints" =>
        /\ ret.raised = "none"
        /\ ~isfile(fs, remove_train_state_file(mpu, ret.prefix))
        /\ ~isdir(fs, ret.prefix)
        /\ \A n \in DOMAIN fs.files \cup fs.dirs : ~Under(n, Node(ret.prefix))
        /\ RemoveCheckpointsResult(fs, mpu, ret.prefix) = [fs |-> fs, raised |-> "none"]

\* C6 witness: a removal that found both the trainer-state file and the
\* checkpoint directory
C6_Witness ==
    /\ ret.op = "remove_checkpoints" /\ ret.raised = "none"
    /\ ret.had_file /\ ret.had_dir

====
